---- MODULE Spec2Model ----
(***************************************************************************)
(* Model of http2ldap.js: an Express GET handler that turns a request path *)
(* and query into an LDAP search on a shared ldapjs client and maps the    *)
(* events of the search response onto one HTTP response.                   *)
(*                                                                         *)
(* JavaScript strings are sequences of string pieces: a value read from    *)
(* the request is a sequence of one-character pieces, a literal of the     *)
(* source is one piece, and + is \o.  A value that may be undefined is a   *)
(* record [t |-> "undefined" | "string" | "array", v |-> ...].             *)
(***************************************************************************)
EXTENDS Integers, Sequences, FiniteSets, TLC

\* ------------------------------------------------------------------ bounds
NumReqs == 2          \* requests the HTTP server receives
MaxEvents == 4        \* search events delivered over all requests
MaxPathLen == 4       \* characters of a path after its leading "/"
MaxParamLen == 3      \* characters of a query parameter value
MaxAttrs == 3         \* attributes in the list of a raw entry

Reqs == 1..NumReqs

\* ------------------------------------------------------- JavaScript values
Undefined == [t |-> "undefined", v |-> <<>>]
Str(s) == [t |-> "string", v |-> s]
EmptyArray == [t |-> "array", v |-> <<>>]

RECURSIVE SplitAcc(_, _, _, _, _)
SplitAcc(s, sep, i, cur, out) ==
  IF i > Len(s) THEN Append(out, cur)
  ELSE IF s[i] = sep THEN SplitAcc(s, sep, i + 1, <<>>, Append(out, cur))
  ELSE SplitAcc(s, sep, i + 1, Append(cur, s[i]), out)

\* String.prototype.split(sep): the pieces between the separators; "" -> [""]
Split(s, sep) == SplitAcc(s, sep, 1, <<>>, <<>>)

\* Array.prototype.reverse()
Reverse(xs) == [i \in 1..Len(xs) |-> xs[Len(xs) + 1 - i]]

RECURSIVE Join(_, _)
\* Array.prototype.join(sep)
Join(xs, sep) ==
  IF Len(xs) = 0 THEN <<>>
  ELSE IF Len(xs) = 1 THEN xs[1]
  ELSE xs[1] \o <<sep>> \o Join(Tail(xs), sep)

\* String.prototype.substring(1)
Substring1(s) == SubSeq(s, 2, Len(s))

\* The search base with the segments left in path order
SearchBaseOf_NoReverse(path) == Join(Split(Substring1(path), "/"), ",")

\* line 63: req.path.substring(1).split("/").reverse().join(",")
SearchBaseOf(path) == Join(Reverse(Split(Substring1(path), "/")), ",")

\* ---------------------------------------------------------------- decodeURI
HexDigits == {"2", "3", "a"}

\* The character an escape %hl stands for, over the digits of HexDigits:
\* "keep" for a member of decodeURI's reserved set (left escaped), "bad" for
\* a byte that is not the start of a UTF-8 sequence (URIError).
EscapeOf(h, l) ==
  CASE h = "2" /\ l = "2" -> "\""
    [] h = "2" /\ l = "3" -> "keep"      \* %23 is #, reserved
    [] h = "2" /\ l = "a" -> "*"
    [] h = "3" /\ l = "2" -> "2"
    [] h = "3" /\ l = "3" -> "3"
    [] h = "3" /\ l = "a" -> "keep"      \* %3a is :, reserved
    [] OTHER -> "bad"                    \* %a2, %a3, %aa: continuation bytes

RECURSIVE DecodeFrom(_, _, _)
\* The decoded string, or <<"URIError">> once a malformed escape is met.
DecodeFrom(s, i, out) ==
  IF i > Len(s) THEN out
  ELSE IF s[i] # "%" THEN DecodeFrom(s, i + 1, Append(out, s[i]))
  ELSE IF i + 2 > Len(s) \/ s[i + 1] \notin HexDigits \/ s[i + 2] \notin HexDigits
    THEN <<"URIError">>
  ELSE LET c == EscapeOf(s[i + 1], s[i + 2]) IN
    IF c = "bad" THEN <<"URIError">>
    ELSE IF c = "keep" THEN DecodeFrom(s, i + 3, out \o SubSeq(s, i, i + 2))
    ELSE DecodeFrom(s, i + 3, Append(out, c))

\* decodeURI that takes undefined for the empty string
DecodeURI_EmptyWhenMissing(x) ==
  IF x.t = "undefined" THEN <<>> ELSE DecodeFrom(x.v, 1, <<>>)

\* line 65: decodeURI(x); the argument is first converted to a string, and
\* undefined converts to "undefined"
DecodeURI(x) ==
  IF x.t = "undefined" THEN <<"undefined">> ELSE DecodeFrom(x.v, 1, <<>>)

DecodeThrows(x) == DecodeURI(x) = <<"URIError">>

\* ------------------------------------------------------------------- scope
\* x == "lit" for x a string or undefined: strings compare by content,
\* undefined equals no string
LooseEq(x, lit) == x.t = "string" /\ x.v = lit

\* The scope with the codes of "one" and "sub" exchanged
ScopeOf_Swapped(scopeNumber) ==
  LET s0 == <<"base">>
      s1 == IF LooseEq(scopeNumber, <<"1">>) THEN <<"sub">> ELSE s0
      s2 == IF LooseEq(scopeNumber, <<"2">>) THEN <<"one">> ELSE s1
  IN s2

\* lines 69-71
ScopeOf(scopeNumber) ==
  LET s0 == <<"base">>
      s1 == IF LooseEq(scopeNumber, <<"1">>) THEN <<"one">> ELSE s0
      s2 == IF LooseEq(scopeNumber, <<"2">>) THEN <<"sub">> ELSE s1
  IN s2

\* lines 75-79
OptsOf(filter, scope) ==
  [filter |-> Str(filter), scope |-> Str(scope), attributes |-> EmptyArray]

\* line 81: the second argument of client.search, the object literal {}
SearchOptions(opts) ==
  [filter |-> Undefined, scope |-> Undefined, attributes |-> Undefined]

\* --------------------------------------------------------- HTTP response
\* The body of a response: nothing sent yet, an empty body, a JSON array of
\* entries, a JSON object {message: ...}, or the error page of Express.
NoBody == [kind |-> "none", v |-> <<>>]
EmptyBody == [kind |-> "empty", v |-> <<>>]
EntriesBody(es) == [kind |-> "entries", v |-> es]
MessageBody(m) == [kind |-> "message", v |-> m]
ErrorPage(m) == [kind |-> "html", v |-> m]

\* Two bodies are the same body
SameBody(a, b) == a.kind = b.kind /\ a.v = b.v

\* An Express response object: statusCode is the field res.status() sets,
\* sentStatus and sentBody are what went out, sendCalls counts the calls that
\* tried to send a response.
NewRes ==
  [statusCode |-> 200, headersSent |-> FALSE, sentStatus |-> 0,
   sentBody |-> NoBody, sendCalls |-> 0]

\* A handler in progress: the response, the number of next() calls, and
\* whether an exception has cut the handler short.
Ctx(res, nx) == [res |-> res, next |-> nx, thrown |-> FALSE]

\* res.status(code)
ResStatus(c, code) ==
  IF c.thrown THEN c ELSE [c EXCEPT !.res.statusCode = code]

Commit(c, body) ==
  [c EXCEPT !.res.headersSent = TRUE,
            !.res.sentStatus = c.res.statusCode,
            !.res.sentBody = body,
            !.res.sendCalls = @ + 1]

\* res.json(obj): sets headers and sends; once the headers are out, setting
\* a header throws ERR_HTTP_HEADERS_SENT and nothing is written
ResJson(c, body) ==
  IF c.thrown THEN c
  ELSE IF c.res.headersSent
    THEN [c EXCEPT !.thrown = TRUE, !.res.sendCalls = @ + 1]
  ELSE Commit(c, body)

\* res.end(): sends the head and an empty body; a no-op on a finished response
ResEnd(c) ==
  IF c.thrown \/ c.res.headersSent THEN c ELSE Commit(c, EmptyBody)

\* next()
CallNext(c) == IF c.thrown THEN c ELSE [c EXCEPT !.next = @ + 1]

\* ------------------------------------------------------- directory events
Attr(type, values) == [type |-> type, values |-> values]

\* entry.pojo of the search entries the directory may deliver
RawEntries ==
  { [objectName |-> <<"cn=a">>,
     attributes |-> << Attr("cn", << <<"a">> >>),
                       Attr("mail", << <<"a@x">>, <<"b@x">> >>) >>],
    [objectName |-> <<"cn=b">>,
     attributes |-> << Attr("cn", << <<"b">> >>),
                       Attr("sn", << <<"s">> >>),
                       Attr("cn", << <<"c">>, <<"b">> >>) >>] }

EndStatuses == {0, 11}

Errors ==
  { [name |-> "NoSuchObjectError", message |-> <<"No Such Object">>],
    [name |-> "OperationsError", message |-> <<"Operations Error">>] }

Events ==
  [type : {"searchEntry"}, entry : RawEntries]
    \cup [type : {"end"}, status : EndStatuses]
    \cup [type : {"error"}, err : Errors]
    \cup [type : {"searchReference"}, uris : {<< <<"ldap://other">> >>}]

RECURSIVE FlattenAttrs_FirstWins(_, _, _)
\* The attribute map in which the first occurrence of a name wins
FlattenAttrs_FirstWins(attrs, i, acc) ==
  IF i > Len(attrs) THEN acc
  ELSE FlattenAttrs_FirstWins(attrs, i + 1,
         [n \in DOMAIN acc \cup {attrs[i].type} |->
            IF n \in DOMAIN acc THEN acc[n] ELSE attrs[i].values])

RECURSIVE FlattenAttrs(_, _, _)
\* lines 103-105: attributes.forEach(attr => resp.attributes[attr.type] = attr.values)
FlattenAttrs(attrs, i, acc) ==
  IF i > Len(attrs) THEN acc
  ELSE FlattenAttrs(attrs, i + 1,
         [n \in DOMAIN acc \cup {attrs[i].type} |->
            IF n = attrs[i].type THEN attrs[i].values ELSE acc[n]])

\* lines 99-105
Flatten(pojo) ==
  [dn |-> pojo.objectName, attributes |-> FlattenAttrs(pojo.attributes, 1, <<>>)]

\* err instanceof ldap.NoSuchObjectError
IsNoSuchObject(err) == err.name = "NoSuchObjectError"

\* The 'end' handler that calls next() before it sends the entries
OnEnd_NextFirst(c, result, es) ==
  IF result.status # 0
    THEN ResEnd(ResJson(ResStatus(c, 400),
           MessageBody(<<"ldap status result was: ">> \o <<ToString(result.status)>>)))
  ELSE ResJson(CallNext(c), EntriesBody(es))

\* The 'end' handler without the test of the status
OnEnd_NoStatusCheck(c, result, es) == CallNext(ResJson(c, EntriesBody(es)))

\* lines 113-123: the 'end' handler
OnEnd(c, result, es) ==
  IF result.status # 0
    THEN ResEnd(ResJson(ResStatus(c, 400),
           MessageBody(<<"ldap status result was: ">> \o <<ToString(result.status)>>)))
  ELSE CallNext(ResJson(c, EntriesBody(es)))

\* The 'error' handler without the branch for NoSuchObjectError
OnError_Merged(c, err, base) ==
  ResEnd(ResJson(ResStatus(c, 500), MessageBody(err.message)))

\* lines 125-134: the 'error' handler
OnError(c, err, base) ==
  IF IsNoSuchObject(err)
    THEN ResEnd(ResJson(ResStatus(c, 400), MessageBody(<<"not found: ">> \o base)))
  ELSE ResEnd(ResJson(ResStatus(c, 500), MessageBody(err.message)))

\* The 'searchReference' handler that only logs
OnSearchReference_LogOnly(c) == c

\* The 'searchReference' handler without res.status(400)
OnSearchReference_NoStatus(c) ==
  ResEnd(ResJson(c, MessageBody(<<"referrals not supported">>)))

\* lines 137-143: the 'searchReference' handler
OnSearchReference(c) ==
  ResEnd(ResJson(ResStatus(c, 400), MessageBody(<<"referrals not supported">>)))

\* ------------------------------------------------------------------- state
VARIABLES
  procState,    \* "running" or "exited"
  exitCause,    \* "none", or what ended the process
  bindDone,     \* the callback of client.bind has run
  phase,        \* per request: where its handling stands
  req,          \* per request: the path and query as received
  locals,       \* per handled request: searchBase, filter, scope, opts
  searchCalls,  \* per request: the client.search calls made, in order
  entries,      \* per subscribed request: the array of entries
  handlers,     \* per request: the events of ldapRes with a listener
  res,          \* per request: the response object
  nextCalls,    \* per request: calls of next()
  nEvents,      \* search events delivered so far
  delivered,    \* per request: the entries its ldapRes has emitted, in order
  options,      \* commander.opts(): the value of each command-line flag
  env,          \* process.env: the value of each environment variable
  config        \* host, port, ldapUrl, bindDN, bindPassword as resolved

vars ==
  <<procState, exitCause, bindDone, phase, req, locals, searchCalls, entries,
    handlers, res, nextCalls, nEvents, delivered, options, env, config>>

\* ------------------------------------------------------------ configuration
Settings == {"host", "port", "ldap", "bind", "password"}

\* lines 36-40: the environment variable behind each setting
EnvName(k) ==
  CASE k = "host" -> "HTTP2LDAP_HOST"
    [] k = "port" -> "HTTP2LDAP_PORT"
    [] k = "ldap" -> "HTTP2LDAP_LDAP_URL"
    [] k = "bind" -> "HTTP2LDAP_BIND_DN"
    [] k = "password" -> "HTTP2LDAP_BIND_PASSWORD"

EnvNames == {EnvName(k) : k \in Settings}

\* The truth value of x in a condition, for x a string or undefined: only
\* undefined and the empty string are false
Truthy(x) == x.t = "string" /\ x.v # <<>>

\* lines 36-40: options.x ? options.x : process.env.HTTP2LDAP_X
Resolve(opt, e) ==
  [k \in Settings |-> IF Truthy(opt[k]) THEN opt[k] ELSE e[EnvName(k)]]

\* The launch of the header comment (line 9): every setting given on the
\* command line, no environment variable set
LaunchOptions == [k \in Settings |-> Str(<<k>>)]
LaunchEnv == [n \in EnvNames |-> Undefined]
Unresolved == [k \in Settings |-> Undefined]

NoQuery == [filter |-> Undefined, scope |-> Undefined]
NoRequest == [path |-> <<"/">>, query |-> NoQuery]

\* The requests the environment sends in the full model: one that is
\* searched and one whose filter decodeURI rejects
Requests ==
  { [path |-> <<"/", "a", "/", "b">>,
     query |-> [filter |-> Str(<<"c">>), scope |-> Str(<<"2">>)]],
    [path |-> <<"/", "a">>,
     query |-> [filter |-> Str(<<"%">>), scope |-> Str(<<"1">>)]] }

\* The process before its first statement, whatever its flags and environment
Loaded(opt, e) ==
  /\ procState = "loading"
  /\ exitCause = "none"
  /\ bindDone = FALSE
  /\ phase = [r \in Reqs |-> "idle"]
  /\ req = [r \in Reqs |-> NoRequest]
  /\ locals = <<>>
  /\ searchCalls = [r \in Reqs |-> <<>>]
  /\ entries = <<>>
  /\ handlers = [r \in Reqs |-> {}]
  /\ res = [r \in Reqs |-> NewRes]
  /\ nextCalls = [r \in Reqs |-> 0]
  /\ nEvents = 0
  /\ delivered = [r \in Reqs |-> <<>>]
  /\ options = opt
  /\ env = e
  /\ config = Unresolved

Init == Loaded(LaunchOptions, LaunchEnv)

\* lines 34-59 and 148: the top level of the module resolves the settings,
\* creates the client, starts the bind and starts listening
Startup ==
  /\ procState = "loading"
  /\ procState' = "running"
  /\ config' = Resolve(options, env)
  /\ UNCHANGED <<exitCause, bindDone, phase, req, locals, searchCalls, entries,
                 handlers, res, nextCalls, nEvents, delivered, options, env>>

\* The callback of client.bind that ignores the error
BindCallback_Swallow(err) ==
  /\ procState = "running"
  /\ ~bindDone
  /\ bindDone' = TRUE
  /\ UNCHANGED <<procState, exitCause, phase, req, locals, searchCalls, entries,
                 handlers, res, nextCalls, nEvents>>
  /\ UNCHANGED <<options, env, config, delivered>>

\* lines 49-51: the callback of client.bind; a bind error is thrown
BindCallback(err) ==
  /\ procState = "running"
  /\ ~bindDone
  /\ bindDone' = TRUE
  /\ IF err THEN procState' = "exited" /\ exitCause' = "bind"
            ELSE UNCHANGED <<procState, exitCause>>
  /\ UNCHANGED <<phase, req, locals, searchCalls, entries, handlers, res,
                 nextCalls, nEvents>>
  /\ UNCHANGED <<options, env, config, delivered>>

\* lines 54-56: the 'connectError' listener; the error is thrown
ConnectError(err) ==
  /\ procState = "running"
  /\ err
  /\ procState' = "exited"
  /\ exitCause' = "connectError"
  /\ UNCHANGED <<bindDone, phase, req, locals, searchCalls, entries, handlers,
                 res, nextCalls, nEvents>>
  /\ UNCHANGED <<options, env, config, delivered>>

\* Express receives a GET request and routes it to the handler of '/*'
Receive(r, input) ==
  /\ procState = "running"
  /\ phase[r] = "idle"
  /\ phase' = [phase EXCEPT ![r] = "received"]
  /\ req' = [req EXCEPT ![r] = input]
  /\ UNCHANGED <<procState, exitCause, bindDone, locals, searchCalls, entries,
                 handlers, res, nextCalls, nEvents>>
  /\ UNCHANGED <<options, env, config, delivered>>

\* lines 60-81: the handler up to the call of client.search.  When decodeURI
\* throws, Express answers with its error page and no search is made.
Handle(r) ==
  /\ procState = "running"
  /\ phase[r] = "received"
  /\ LET searchBase == SearchBaseOf(req[r].path)
         rawFilter == req[r].query.filter
         filter == DecodeURI(rawFilter)
         scope == ScopeOf(req[r].query.scope)
         opts == OptsOf(filter, scope)
     IN IF DecodeThrows(rawFilter)
          THEN /\ phase' = [phase EXCEPT ![r] = "rejected"]
               /\ res' = [res EXCEPT ![r] =
                            Commit(ResStatus(Ctx(res[r], 0), 500),
                                   ErrorPage(<<"URIError">>)).res]
               /\ UNCHANGED <<locals, searchCalls>>
          ELSE /\ phase' = [phase EXCEPT ![r] = "searching"]
               /\ locals' = (r :> [searchBase |-> searchBase, filter |-> filter,
                                   scope |-> scope, opts |-> opts]) @@ locals
               /\ searchCalls' = [searchCalls EXCEPT ![r] =
                    Append(@, [base |-> searchBase, options |-> SearchOptions(opts)])]
               /\ UNCHANGED res
  /\ UNCHANGED <<procState, exitCause, bindDone, req, entries, handlers,
                 nextCalls, nEvents>>
  /\ UNCHANGED <<options, env, config, delivered>>

\* The callback of client.search without the return of its error branch
SearchCallback_NoReturn(r, ldapErr) ==
  /\ procState = "running"
  /\ phase[r] = "searching"
  /\ phase' = [phase EXCEPT ![r] = IF ldapErr THEN "failed" ELSE "streaming"]
  /\ res' = [res EXCEPT ![r] =
               IF ldapErr THEN ResEnd(ResStatus(Ctx(res[r], 0), 500)).res ELSE @]
  /\ entries' = (r :> <<>>) @@ entries
  /\ handlers' = [handlers EXCEPT ![r] =
        {"searchEntry", "end", "error", "searchReference"}]
  /\ UNCHANGED <<procState, exitCause, bindDone, req, locals, searchCalls,
                 nextCalls, nEvents>>
  /\ UNCHANGED <<options, env, config, delivered>>

\* The callback of client.search that searches again when the search failed
SearchCallback_Retry(r, ldapErr) ==
  /\ procState = "running"
  /\ phase[r] = "searching"
  /\ IF ldapErr
       THEN /\ phase' = [phase EXCEPT ![r] = "failed"]
            /\ res' = [res EXCEPT ![r] = ResEnd(ResStatus(Ctx(res[r], 0), 500)).res]
            /\ searchCalls' = [searchCalls EXCEPT ![r] = Append(@, @[1])]
            /\ UNCHANGED <<entries, handlers>>
       ELSE /\ phase' = [phase EXCEPT ![r] = "streaming"]
            /\ entries' = (r :> <<>>) @@ entries
            /\ handlers' = [handlers EXCEPT ![r] =
                  {"searchEntry", "end", "error", "searchReference"}]
            /\ UNCHANGED <<res, searchCalls>>
  /\ UNCHANGED <<procState, exitCause, bindDone, req, locals, nextCalls, nEvents>>
  /\ UNCHANGED <<options, env, config, delivered>>

\* lines 81-143: the callback of client.search.  With an error it answers 500
\* and returns; otherwise it creates the entries array and subscribes the
\* four listeners.
SearchCallback(r, ldapErr) ==
  /\ procState = "running"
  /\ phase[r] = "searching"
  /\ IF ldapErr
       THEN /\ phase' = [phase EXCEPT ![r] = "failed"]
            /\ res' = [res EXCEPT ![r] = ResEnd(ResStatus(Ctx(res[r], 0), 500)).res]
            /\ UNCHANGED <<entries, handlers>>
       ELSE /\ phase' = [phase EXCEPT ![r] = "streaming"]
            /\ entries' = (r :> <<>>) @@ entries
            /\ handlers' = [handlers EXCEPT ![r] =
                  {"searchEntry", "end", "error", "searchReference"}]
            /\ UNCHANGED res
  /\ UNCHANGED <<procState, exitCause, bindDone, req, locals, searchCalls,
                 nextCalls, nEvents>>
  /\ UNCHANGED <<options, env, config, delivered>>

\* The push that keeps only the newest entry
PushEntry_Replace(es, r, e) == [es EXCEPT ![r] = <<e>>]

\* The push that puts the newest entry first
PushEntry_Unshift(es, r, e) == [es EXCEPT ![r] = <<e>> \o @]

\* The push onto one array shared by all requests
PushEntry_Shared(es, r, e) == [q \in DOMAIN es |-> Append(es[q], e)]

\* line 109: entries.push(resp), on the array of the callback of request r
PushEntry(es, r, e) == [es EXCEPT ![r] = Append(@, e)]

\* The listener of ev.type run on the response of request r
RunListener(r, ev) ==
  LET c == Ctx(res[r], nextCalls[r]) IN
  CASE ev.type = "end" -> OnEnd(c, ev, entries[r])
    [] ev.type = "error" -> OnError(c, ev.err, locals[r].searchBase)
    [] ev.type = "searchReference" -> OnSearchReference(c)
    [] OTHER -> c

\* The directory connection has an event for the search of request r: the
\* listener subscribed for it runs, and an exception it throws is uncaught and
\* ends the process.  A request whose search failed has no ldapRes and so no
\* listener: an event for it reaches no code of the handler.
Deliver(r, ev) ==
  /\ procState = "running"
  /\ phase[r] \in {"streaming", "failed"}
  /\ nEvents < MaxEvents
  /\ nEvents' = nEvents + 1
  /\ delivered' = IF phase[r] = "streaming" /\ ev.type = "searchEntry"
                    THEN [delivered EXCEPT ![r] = Append(@, ev.entry)]
                    ELSE delivered
  /\ IF ev.type \in handlers[r]
       THEN LET c == RunListener(r, ev) IN
            /\ res' = [res EXCEPT ![r] = c.res]
            /\ nextCalls' = [nextCalls EXCEPT ![r] = c.next]
            /\ entries' = IF ev.type = "searchEntry"
                             THEN PushEntry(entries, r, Flatten(ev.entry))
                             ELSE entries
            /\ IF c.thrown
                 THEN procState' = "exited" /\ exitCause' = "uncaught"
                 ELSE UNCHANGED <<procState, exitCause>>
       ELSE UNCHANGED <<res, nextCalls, entries, procState, exitCause>>
  /\ UNCHANGED <<bindDone, phase, req, locals, searchCalls, handlers>>
  /\ UNCHANGED <<options, env, config>>

Next ==
  \/ Startup
  \/ \E err \in BOOLEAN : BindCallback(err)
  \/ \E err \in BOOLEAN : ConnectError(err)
  \/ \E r \in Reqs, input \in Requests : Receive(r, input)
  \/ \E r \in Reqs : Handle(r)
  \/ \E r \in Reqs, ldapErr \in BOOLEAN : SearchCallback(r, ldapErr)
  \/ \E r \in Reqs, ev \in Events : Deliver(r, ev)

Spec == Init /\ [][Next]_vars

\* ------------------------------------------- the handler's pure functions
\* All sequences over S of length at most n
SeqsUpTo(S, n) == UNION {[1..k -> S] : k \in 0..n}

PathChars == {"/", "a", "b", ","}
ScopeChars == {"0", "1", "2", "x"}
FilterChars == {"c", "%", "2", "3", "a"}

Paths == {<<"/">> \o s : s \in SeqsUpTo(PathChars, MaxPathLen)}
ScopeParams == {Undefined} \cup {Str(s) : s \in SeqsUpTo(ScopeChars, MaxParamLen)}
FilterParams == {Undefined} \cup {Str(s) : s \in SeqsUpTo(FilterChars, MaxParamLen)}

\* Requests that vary one of path, scope and filter over its whole range
HandlerInputs ==
  {[path |-> p, query |-> NoQuery] : p \in Paths}
    \cup {[path |-> <<"/">>, query |-> [filter |-> Str(<<"c">>), scope |-> sc]] :
            sc \in ScopeParams}
    \cup {[path |-> <<"/">>, query |-> [filter |-> f, scope |-> Undefined]] :
            f \in FilterParams}

\* One request has been received, with any input; the handler then runs.
InitHandler ==
  /\ procState = "running"
  /\ exitCause = "none"
  /\ bindDone = TRUE
  /\ phase = [r \in Reqs |-> IF r = 1 THEN "received" ELSE "idle"]
  /\ \E input \in HandlerInputs :
        req = [r \in Reqs |-> IF r = 1 THEN input ELSE NoRequest]
  /\ locals = <<>>
  /\ searchCalls = [r \in Reqs |-> <<>>]
  /\ entries = <<>>
  /\ handlers = [r \in Reqs |-> {}]
  /\ res = [r \in Reqs |-> NewRes]
  /\ nextCalls = [r \in Reqs |-> 0]
  /\ nEvents = 0
  /\ delivered = [r \in Reqs |-> <<>>]
  /\ options = LaunchOptions
  /\ env = LaunchEnv
  /\ config = Resolve(LaunchOptions, LaunchEnv)

NextHandler == \E r \in Reqs : Handle(r)

SpecHandler == InitHandler /\ [][NextHandler]_vars

\* -------------------------------------------------------------------- C9
\* The position of the first "/" of s at or after i, Len(s) + 1 if none
NextSlash(s, i) ==
  LET after == {j \in i..Len(s) : s[j] = "/"} IN
  IF after = {} THEN Len(s) + 1 ELSE CHOOSE j \in after : \A k \in after : j <= k

\* The position of the last "/" of s at or before i, 0 if none
PrevSlash(s, i) ==
  LET before == {j \in 1..i : s[j] = "/"} IN
  IF before = {} THEN 0 ELSE CHOOSE j \in before : \A k \in before : j >= k

\* out is the segments of body (its pieces between "/") in reverse order with
\* "," between them: every "/" of body stands as a "," at the mirrored
\* position, and every other character stands unchanged, at its offset in its
\* segment, after the segments that follow its own.
IsReversedSegments(body, out) ==
  /\ Len(out) = Len(body)
  /\ \A i \in 1..Len(body) :
       IF body[i] = "/"
         THEN out[Len(body) + 1 - i] = ","
         ELSE out[Len(body) + 1 - NextSlash(body, i) + i - PrevSlash(body, i)] = body[i]

\* C9: for every request path, the search base is the path without its
\* leading "/", split on "/", the segments reversed and joined with ",", no
\* segment altered; the path "/" gives the empty search base.
C9_SearchBase ==
  \A r \in DOMAIN locals :
    /\ IsReversedSegments(Tail(req[r].path), locals[r].searchBase)
    /\ (req[r].path = <<"/">> => locals[r].searchBase = <<>>)

\* A path of two segments, one holding a ",", has been resolved
C9_Witness ==
  \E r \in DOMAIN locals :
    /\ req[r].path = <<"/", "a", ",", "/", "b">>
    /\ locals[r].searchBase = <<"b", ",", "a", ",">>

\* ------------------------------------------------------------------- C10
ScopeNames == {<<"base">>, <<"one">>, <<"sub">>}

\* C10: the scope parameter "0" maps to "base", "1" to "one", "2" to "sub",
\* every other string and a missing parameter map to "base"; the scope is
\* always one of the three names and never the parameter itself.
C10_ScopeMapping ==
  \A r \in DOMAIN locals :
    LET p == req[r].query.scope
        s == locals[r].scope
    IN /\ (p = Str(<<"0">>) => s = <<"base">>)
       /\ (p = Str(<<"1">>) => s = <<"one">>)
       /\ (p = Str(<<"2">>) => s = <<"sub">>)
       /\ (p \notin {Str(<<"0">>), Str(<<"1">>), Str(<<"2">>)} => s = <<"base">>)
       /\ s \in ScopeNames
       /\ (p.t = "string" => s # p.v)

\* A request with scope=2 has been given the scope "sub"
C10_Witness ==
  \E r \in DOMAIN locals :
    req[r].query.scope = Str(<<"2">>) /\ locals[r].scope = <<"sub">>

\* ------------------------------------------------------------- C1, C2, C8
\* Event ev is delivered to a subscribed listener of request r.  Every
\* delivery counts in nEvents, so the counter is looked at first.
Heard(r, ev) == nEvents' # nEvents /\ ev.type \in handlers[r] /\ Deliver(r, ev)

\* C1: whatever events the search of a request delivers, the handler
\* attempts to send a response at most once.
C1_OneResponse == \A r \in Reqs : res[r].sendCalls <= 1

\* C2: once a response is committed, no later event of the request changes
\* the response object or calls anything on it.
C2_LaterEventsIgnored ==
  [][\A r \in Reqs :
       res[r].headersSent => res'[r] = res[r] /\ nextCalls'[r] = nextCalls[r]]_vars

\* C8: the process ends only through a bind failure or a connect error,
\* never through the events of a request.
C8_NoRequestCrash == exitCause \in {"none", "bind", "connectError"}

\* -------------------------------------------------------------------- C3
\* C3: every search call carries the location, the filter and the scope the
\* handler computed for the request.
C3_SearchCarriesDescriptor ==
  \A r \in DOMAIN locals :
    \A i \in 1..Len(searchCalls[r]) :
      /\ searchCalls[r][i].base = locals[r].searchBase
      /\ searchCalls[r][i].options.filter = Str(locals[r].filter)
      /\ searchCalls[r][i].options.scope = Str(locals[r].scope)

\* -------------------------------------------------------------------- C4
\* C4: when an end event is the first terminal event of a request, status 0
\* sends 200 with the array of the entries accumulated so far, and any other
\* status sends 400 with {message: "ldap status result was: " + status}.
C4_EndOutcome ==
  [][\A r \in Reqs :
       (nEvents' # nEvents /\ ~res[r].headersSent) => \A ev \in Events :
       (ev.type = "end" /\ Heard(r, ev)) =>
         IF ev.status = 0
           THEN /\ res'[r].sentStatus = 200
                /\ SameBody(res'[r].sentBody, EntriesBody(entries[r]))
           ELSE /\ res'[r].sentStatus = 400
                /\ SameBody(res'[r].sentBody,
                     MessageBody(<<"ldap status result was: ", ToString(ev.status)>>))]_vars

\* One request answered 200 with its two entries, another 400 with the status
C4_Witness ==
  \E r, q \in Reqs :
    /\ r \in DOMAIN entries
    /\ Len(entries[r]) = 2
    /\ res[r].sentStatus = 200
    /\ SameBody(res[r].sentBody, EntriesBody(entries[r]))
    /\ res[q].sentStatus = 400
    /\ SameBody(res[q].sentBody, MessageBody(<<"ldap status result was: ", "11">>))

\* -------------------------------------------------------------------- C5
\* C5: when an error event is the first terminal event of a request, a
\* NoSuchObjectError sends 400 with {message: "not found: " + search base}
\* and any other error sends 500 with {message: the error's message}.
C5_ErrorOutcome ==
  [][\A r \in Reqs :
       (nEvents' # nEvents /\ ~res[r].headersSent) => \A ev \in Events :
       (ev.type = "error" /\ Heard(r, ev)) =>
         IF ev.err.name = "NoSuchObjectError"
           THEN /\ res'[r].sentStatus = 400
                /\ SameBody(res'[r].sentBody,
                     MessageBody(<<"not found: ">> \o locals[r].searchBase))
           ELSE /\ res'[r].sentStatus = 500
                /\ SameBody(res'[r].sentBody, MessageBody(ev.err.message))]_vars

\* One request answered "not found: b,a", another 500 with the error message
C5_Witness ==
  \E r, q \in Reqs :
    /\ res[r].sentStatus = 400
    /\ SameBody(res[r].sentBody, MessageBody(<<"not found: ", "b", ",", "a">>))
    /\ res[q].sentStatus = 500
    /\ SameBody(res[q].sentBody, MessageBody(<<"Operations Error">>))

\* -------------------------------------------------------------------- C6
ReferralBody == MessageBody(<<"referrals not supported">>)

\* C6 as stated: a referral event of a request always leaves the request
\* answered with 400 and {message: "referrals not supported"}.
C6_ReferralAlwaysRejected ==
  [][\A r \in Reqs, ev \in Events :
       (ev.type = "searchReference" /\ Heard(r, ev)) =>
         res'[r].sentStatus = 400 /\ SameBody(res'[r].sentBody, ReferralBody)]_vars

\* C6 amended: a referral event that is the first terminal event of a request
\* sends 400 with {message: "referrals not supported"}; from then on, whatever
\* events follow, the response sent stays that one, with no entry in it, and
\* no further search is issued.
C6_FirstReferralRejected ==
  [][\A r \in Reqs :
       /\ (nEvents' # nEvents /\ ~res[r].headersSent) => \A ev \in Events :
            (ev.type = "searchReference" /\ Heard(r, ev)) =>
              res'[r].sentStatus = 400 /\ SameBody(res'[r].sentBody, ReferralBody)
       /\ SameBody(res[r].sentBody, ReferralBody) =>
            /\ res'[r].sentStatus = 400
            /\ SameBody(res'[r].sentBody, ReferralBody)
            /\ searchCalls'[r] = searchCalls[r]
            /\ Len(searchCalls[r]) = 1]_vars

\* A referral was answered, with an entry before it and an entry and a
\* successful end after it
C6_Witness ==
  \E r \in DOMAIN entries :
    /\ res[r].sentStatus = 400
    /\ SameBody(res[r].sentBody, ReferralBody)
    /\ Len(entries[r]) = 2
    /\ res[r].sendCalls = 2

\* -------------------------------------------------------------------- C7
\* C7: a request whose search could not be issued is answered 500 with an
\* empty body by the search callback itself, has no listener and no entries
\* array, and keeps exactly that response whatever events come later.
C7_IssuanceFailure ==
  \A r \in Reqs :
    phase[r] = "failed" =>
      /\ res[r].sentStatus = 500
      /\ SameBody(res[r].sentBody, EmptyBody)
      /\ res[r].sendCalls = 1
      /\ res[r].statusCode = 500
      /\ handlers[r] = {}
      /\ r \notin DOMAIN entries
      /\ nextCalls[r] = 0

\* Every event of the run went to requests whose search failed
C7_Witness ==
  /\ \E r \in Reqs : phase[r] = "failed"
  /\ \A r \in Reqs : phase[r] \in {"failed", "idle"}
  /\ nEvents = MaxEvents

\* ------------------------------------------------------------------- C11
\* The flattened entries of a sequence of raw entries, in the same order
FlattenedLog(log) == [i \in 1..Len(log) |-> Flatten(log[i])]

\* C11: the body sent by a successful end event is the flattened entries
\* delivered to the request before that event, in delivery order, each once;
\* a body of entries, once sent, stays as sent.
C11_ArrivalOrder ==
  [][\A r \in Reqs :
       /\ (nEvents' # nEvents /\ ~res[r].headersSent) => \A ev \in Events :
            (ev.type = "end" /\ ev.status = 0 /\ Heard(r, ev)) =>
              SameBody(res'[r].sentBody, EntriesBody(FlattenedLog(delivered[r])))
       /\ res[r].sentBody.kind = "entries" => SameBody(res'[r].sentBody, res[r].sentBody)]_vars

\* Three entries, the first and the third alike, were answered in that order
C11_Witness ==
  \E r \in Reqs :
    /\ Len(delivered[r]) = 3
    /\ delivered[r][1] = delivered[r][3]
    /\ delivered[r][1] # delivered[r][2]
    /\ res[r].sentStatus = 200
    /\ SameBody(res[r].sentBody, EntriesBody(FlattenedLog(delivered[r])))

\* ------------------------------------------------------------------- C12
AttrValues == {<<>>, << <<"x">> >>, << <<"x">>, <<"y">> >>, << <<"y">>, <<"x">> >>}
AttrsOfEntry == {Attr(n, vs) : n \in {"cn", "mail"}, vs \in AttrValues}

\* The raw entries of at most MaxAttrs attributes, names repeated or not
AllRawEntries ==
  {[objectName |-> <<"cn=a">>, attributes |-> as] : as \in SeqsUpTo(AttrsOfEntry, MaxAttrs)}

\* Request 1 has been received and handled, its search was issued and the
\* search callback has subscribed the listeners.
InitEntries ==
  LET input == [path |-> <<"/", "a", "/", "b">>,
                query |-> [filter |-> Str(<<"c">>), scope |-> Str(<<"2">>)]]
      base == SearchBaseOf(input.path)
      filter == DecodeURI(input.query.filter)
      scope == ScopeOf(input.query.scope)
  IN
  /\ procState = "running"
  /\ exitCause = "none"
  /\ bindDone = TRUE
  /\ phase = [r \in Reqs |-> IF r = 1 THEN "streaming" ELSE "idle"]
  /\ req = [r \in Reqs |-> IF r = 1 THEN input ELSE NoRequest]
  /\ locals = (1 :> [searchBase |-> base, filter |-> filter, scope |-> scope,
                     opts |-> OptsOf(filter, scope)])
  /\ searchCalls = [r \in Reqs |->
        IF r = 1 THEN <<[base |-> base, options |-> SearchOptions(OptsOf(filter, scope))]>>
        ELSE <<>>]
  /\ entries = (1 :> <<>>)
  /\ handlers = [r \in Reqs |->
        IF r = 1 THEN {"searchEntry", "end", "error", "searchReference"} ELSE {}]
  /\ res = [r \in Reqs |-> NewRes]
  /\ nextCalls = [r \in Reqs |-> 0]
  /\ nEvents = 0
  /\ delivered = [r \in Reqs |-> <<>>]
  /\ options = LaunchOptions
  /\ env = LaunchEnv
  /\ config = Resolve(LaunchOptions, LaunchEnv)

\* The search emits its first entry, any raw entry
NextEntries ==
  \E r \in Reqs, pojo \in AllRawEntries :
    /\ delivered[r] = <<>>
    /\ Deliver(r, [type |-> "searchEntry", entry |-> pojo])

SpecEntries == InitEntries /\ [][NextEntries]_vars

\* f is raw flattened: its dn is the object name, its attribute names are
\* the names of raw, and each name has the values, in their order, of the
\* last attribute of raw with that name.
IsFlattened(raw, f) ==
  LET as == raw.attributes
      Last(n) == CHOOSE j \in 1..Len(as) :
                   as[j].type = n /\ \A k \in (j + 1)..Len(as) : as[k].type # n
  IN /\ f.dn = raw.objectName
     /\ DOMAIN f.attributes = {as[j].type : j \in 1..Len(as)}
     /\ \A n \in DOMAIN f.attributes : f.attributes[n] = as[Last(n)].values

\* C12: every entry in the array is the flattening {dn, attributes} of the
\* raw entry delivered at its position: the names of the raw entry are the
\* keys, each once, with all the values in order, the last occurrence of a
\* repeated name winning.
C12_Flattening ==
  \A r \in DOMAIN entries :
    /\ Len(entries[r]) = Len(delivered[r])
    /\ \A i \in 1..Len(entries[r]) : IsFlattened(delivered[r][i], entries[r][i])

\* An entry with a repeated name and two-valued attributes was flattened
C12_Witness ==
  \E r \in DOMAIN entries :
    /\ delivered[r] =
         << [objectName |-> <<"cn=a">>,
             attributes |-> << Attr("cn", << <<"x">> >>),
                               Attr("mail", << <<"x">>, <<"y">> >>),
                               Attr("cn", << <<"y">>, <<"x">> >>) >>] >>
    /\ Len(entries[r]) = 1
    /\ DOMAIN entries[r][1].attributes = {"cn", "mail"}
    /\ entries[r][1].attributes["cn"] = << <<"y">>, <<"x">> >>
    /\ entries[r][1].attributes["mail"] = << <<"x">>, <<"y">> >>

\* ------------------------------------------------------------------- C13
\* Everything the handler holds for request q
Own(q) ==
  <<phase[q], req[q], searchCalls[q], handlers[q], res[q], nextCalls[q],
    delivered[q], q \in DOMAIN entries,
    IF q \in DOMAIN entries THEN entries[q] ELSE <<>>,
    IF q \in DOMAIN locals THEN <<locals[q]>> ELSE <<>> >>

\* A step of the handling of request r
StepOf(r) ==
  \/ /\ nEvents' = nEvents
     /\ \/ \E input \in Requests : Receive(r, input)
        \/ Handle(r)
        \/ \E ldapErr \in BOOLEAN : SearchCallback(r, ldapErr)
  \/ /\ nEvents' # nEvents
     /\ \E ev \in Events : Deliver(r, ev)

\* C13: a step of one request, an event of its search included, changes
\* nothing another request holds: not its entries array, its search base,
\* or its response.
C13_Isolation ==
  [][\A q \in Reqs :
       Own(q)' = Own(q) \/ \A r \in Reqs \ {q} : ~StepOf(r)]_vars

\* Two requests in flight, each answered with the one entry of its own search
C13_Witness ==
  /\ {1, 2} \subseteq DOMAIN entries
  /\ Len(entries[1]) = 1
  /\ Len(entries[2]) = 1
  /\ entries[1] # entries[2]
  /\ SameBody(res[1].sentBody, EntriesBody(FlattenedLog(delivered[1])))
  /\ SameBody(res[2].sentBody, EntriesBody(FlattenedLog(delivered[2])))

C15_FatalErrors ==
  [][/\ BindCallback(TRUE) => procState' = "exited" /\ exitCause' = "bind"
     /\ ConnectError(TRUE) => procState' = "exited" /\ exitCause' = "connectError"
     /\ procState = "exited" => vars' = vars]_vars

\* A connect error ended the process while a request waited for its search
C15_Witness ==
  /\ procState = "exited"
  /\ exitCause = "connectError"
  /\ \E r \in Reqs : phase[r] = "streaming" /\ ~res[r].headersSent

\* ------------------------------------------------------------------- C16
TerminalTypes == {"end", "error", "searchReference"}

\* C16: a terminal event heard by a request, and a search that fails to
\* issue, leave the request with a response; and a request that waits for
\* its search gets a response from nothing else, so without a terminal event
\* it stays without one.
C16_BoundedBySignalling ==
  [][\A r \in Reqs :
       /\ res'[r].headersSent \/
            /\ nEvents' = nEvents \/
                 \A ev \in Events : ~(ev.type \in TerminalTypes /\ Heard(r, ev))
            /\ ~SearchCallback(r, TRUE)
       /\ (phase[r] \in {"searching", "streaming"} /\ res'[r] # res[r]) =>
            \/ SearchCallback(r, TRUE)
            \/ \E ev \in Events : ev.type \in TerminalTypes /\ Deliver(r, ev)]_vars

\* A search has emitted all the events of the run, entries only, and its
\* request is still without a response
C16_Witness ==
  \E r \in Reqs :
    /\ phase[r] = "streaming"
    /\ Len(delivered[r]) = MaxEvents
    /\ ~res[r].headersSent

\* ------------------------------------------------------------------- C17
\* The characters of s
CharsOf(s) == {s[i] : i \in 1..Len(s)}

C18_AppendOnly ==
  [][\A r \in Reqs :
       /\ r \in DOMAIN entries =>
            /\ r \in DOMAIN entries'
            /\ entries'[r] = entries[r] \/
                 /\ Len(entries'[r]) >= Len(entries[r])
                 /\ SubSeq(entries'[r], 1, Len(entries[r])) = entries[r]
                 /\ \E ev \in Events : ev.type = "searchEntry" /\ Deliver(r, ev)
       /\ (r \notin DOMAIN entries /\ r \in DOMAIN entries') =>
            entries'[r] = <<>> /\ SearchCallback(r, FALSE)
       /\ nEvents' # nEvents => \A ev \in Events :
            (ev.type = "searchEntry" /\ Heard(r, ev)) =>
              /\ Len(entries'[r]) = Len(entries[r]) + 1
              /\ entries'[r][Len(entries'[r])] = Flatten(ev.entry)]_vars

\* An array of three entries, two of them appended after the response
C18_Witness ==
  \E r \in DOMAIN entries :
    /\ Len(entries[r]) = 3
    /\ res[r].sentBody.kind = "entries"
    /\ Len(res[r].sentBody.v) = 1

\* ------------------------------------------------------------------- C19
FlagValues == {Undefined, Str(<<>>), Str(<<"f">>)}
EnvValues == {Undefined, Str(<<"e">>)}

\* The process is loaded with any flags and any environment
InitConfig ==
  \E opt \in [Settings -> FlagValues], e \in [EnvNames -> EnvValues] : Loaded(opt, e)

NextConfig == Startup

SpecConfig == InitConfig /\ [][NextConfig]_vars

\* C19: once resolved, each setting is the value of its flag when the flag
\* was given, and the value of its environment variable otherwise.
C19_FlagPrecedence ==
  procState # "loading" =>
    \A k \in Settings :
      config[k] = IF options[k].t = "string" THEN options[k] ELSE env[EnvName(k)]

\* ------------------------------------------------------------------- C20
\* C20: next() is called only by a successful end event that has just sent
\* the 200 response with the entries; a request answered 400 or 500 has had
\* no call of next().
C20_NextOnlyOnSuccess ==
  [][\A r \in Reqs :
       /\ nextCalls'[r] # nextCalls[r] =>
            /\ nextCalls'[r] = nextCalls[r] + 1
            /\ ~res[r].headersSent
            /\ res'[r].sentStatus = 200
            /\ res'[r].sentBody.kind = "entries"
            /\ \E ev \in Events : ev.type = "end" /\ ev.status = 0 /\ Heard(r, ev)
       /\ res'[r].sentStatus \in {400, 500} => nextCalls'[r] = 0]_vars

\* One request answered 200 and passed on, another answered 400 whose later
\* successful end passed nothing on
C20_Witness ==
  \E r, q \in Reqs :
    /\ res[r].sentStatus = 200
    /\ nextCalls[r] = 1
    /\ res[q].sentStatus = 400
    /\ res[q].sendCalls = 2
    /\ nextCalls[q] = 0

====
